---- MODULE Spec2Model ----
(***************************************************************************)
(* Model of the invoice extractor: the regex-driven field extraction of    *)
(* backend/services/pdf_processor.py, the CSV writer of                    *)
(* backend/services/output_generator.py and the session endpoints of       *)
(* backend/app.py.                                                         *)
(*                                                                         *)
(* Texts are strings; a position i in 0..Len(s) is the number of           *)
(* characters already consumed.  Regular expressions are syntax trees      *)
(* matched by a backtracking matcher that lists the possible end           *)
(* positions of a match in the order Python's re module tries them, so     *)
(* that greedy/lazy quantifiers and alternation order behave as in the     *)
(* source.  Amounts are counted in hundredths (the patterns admit at most  *)
(* two decimals).  A value that is used more than once is handed on as an   *)
(* operator argument, as the source hands it on in a local variable.       *)
(***************************************************************************)
EXTENDS Integers, Sequences, FiniteSets, TLC

VARIABLES
    args,       \* the arguments of the function under check (SpecExtract, SpecIsInvoice, ...)
    ret,        \* what it returned; NotCalled before the call
    uploads,    \* Spec: UPLOAD_DIR, session id -> the session's directory
    outputs,    \* Spec: OUTPUT_DIR, session id -> the session's directory
    issued,     \* Spec: the session ids upload_files has handed out
    response    \* Spec: the response of the last request

vars == <<args, ret, uploads, outputs, issued, response>>

-----------------------------------------------------------------------------
(* Characters and strings *)

UpperLetters == "ABCDEFGHIJKLMNOPQRSTUVWXYZ"
LowerLetters == "abcdefghijklmnopqrstuvwxyz"
DigitChars == "0123456789"

CharsOf(s) == {SubSeq(s, i, i) : i \in 1..Len(s)}

Upper == CharsOf(UpperLetters)
Lower == CharsOf(LowerLetters)
Digit == CharsOf(DigitChars)
Space == {" ", "\t", "\n", "\r", "\f"}
WordChars == Upper \cup Lower \cup Digit \cup {"_"}

IndexIn(c, s) == CHOOSE i \in 1..Len(s) : SubSeq(s, i, i) = c

\* str.lower() on one character (ASCII letters; other characters are kept)
LowerChar(c) ==
    IF c \in Upper THEN LET i == IndexIn(c, UpperLetters) IN SubSeq(LowerLetters, i, i)
    ELSE c

UpperChar(c) ==
    IF c \in Lower THEN LET i == IndexIn(c, LowerLetters) IN SubSeq(UpperLetters, i, i)
    ELSE c

\* The concatenation of the sequences ss[lo..hi], and of the strings ss[lo..hi]
\* (both split in halves, which keeps the evaluation shallow)
RECURSIVE ConcatRange(_, _, _)
ConcatRange(ss, lo, hi) ==
    IF lo > hi THEN <<>>
    ELSE IF lo = hi THEN ss[lo]
    ELSE LET mid == (lo + hi) \div 2
         IN  ConcatRange(ss, lo, mid) \o ConcatRange(ss, mid + 1, hi)

ConcatAll(ss) == ConcatRange(ss, 1, Len(ss))

RECURSIVE JoinRange(_, _, _)
JoinRange(ss, lo, hi) ==
    IF lo > hi THEN ""
    ELSE IF lo = hi THEN ss[lo]
    ELSE LET mid == (lo + hi) \div 2
         IN  JoinRange(ss, lo, mid) \o JoinRange(ss, mid + 1, hi)

JoinAll(ss) == JoinRange(ss, 1, Len(ss))

Min(S) == CHOOSE x \in S : \A y \in S : x <= y
Max(S) == CHOOSE x \in S : \A y \in S : y <= x

\* str.lower(), str.upper()
LowerStr(s) == JoinAll([i \in 1..Len(s) |-> LowerChar(SubSeq(s, i, i))])
UpperStr(s) == JoinAll([i \in 1..Len(s) |-> UpperChar(SubSeq(s, i, i))])

\* str.lstrip(), str.strip(): leading (and trailing) whitespace removed
Solid(s) == {i \in 1..Len(s) : SubSeq(s, i, i) \notin Space}
Between(s, solid) == IF solid = {} THEN "" ELSE SubSeq(s, Min(solid), Max(solid))
LStrip(s) == Between(s, Solid(s) \cup (IF Solid(s) = {} THEN {} ELSE {Len(s)}))
Strip(s) == Between(s, Solid(s))

-----------------------------------------------------------------------------
(* Regular expressions.  Every search of the source that involves letters  *)
(* is case-insensitive, so letters of a pattern are written in lower case  *)
(* and matched against the lower-cased text; captures are cut from the     *)
(* original text at the matched positions.                                 *)

Cls(S) == [t |-> "set", s |-> {LowerChar(c) : c \in S}]
Lit(w) == [t |-> "lit", s |-> w]
Cat(a) == [t |-> "seq", a |-> a]
Alt(a) == [t |-> "alt", a |-> a]
Rep(r, lo, hi) == [t |-> "rep", r |-> r, lo |-> lo, hi |-> hi, lazy |-> FALSE]
RepLazy(r, lo, hi) == [t |-> "rep", r |-> r, lo |-> lo, hi |-> hi, lazy |-> TRUE]
Star(r) == Rep(r, 0, -1)
Plus(r) == Rep(r, 1, -1)
Opt(r) == Rep(r, 0, 1)
Bol == [t |-> "bol"]
WordB == [t |-> "wb"]
Eps == Cat(<<>>)

IsWordAt(s, i) == i >= 1 /\ i <= Len(s) /\ SubSeq(s, i, i) \in WordChars

RECURSIVE M(_, _, _), MSeq(_, _, _, _), MRep(_, _, _, _)

\* The ends of a run of `run` characters of a repeated character class that
\* starts at i, of which at least `least` are needed: longest first when greedy
RunEnds(lazy, i, run, least) ==
    IF lazy THEN [j \in 1..(run - least + 1) |-> i + least + j - 1]
    ELSE [j \in 1..(run - least + 1) |-> i + run - j + 1]

RunLength(set, s, i, cap) ==
    Max({k \in 0..cap : \A j \in 1..k : SubSeq(s, i + j, i + j) \in set})

\* After each end in E the rest continues; the ends are listed in order
Continue(E, r, s, n) == ConcatAll([j \in 1..Len(E) |-> MRep(r, s, E[j], n)])
ContinueSeq(E, r, s) == ConcatAll([j \in 1..Len(E) |-> M(r, s, E[j])])

\* The end positions of the matches of r in s starting at position i, in the
\* order a backtracking matcher tries them.
M(r, s, i) ==
    CASE r.t = "set" ->
            IF i < Len(s) /\ SubSeq(s, i + 1, i + 1) \in r.s THEN <<i + 1>> ELSE <<>>
      [] r.t = "lit" ->
            IF i + Len(r.s) <= Len(s) /\ SubSeq(s, i + 1, i + Len(r.s)) = r.s
            THEN <<i + Len(r.s)>> ELSE <<>>
      [] r.t = "bol" ->
            IF i = 0 \/ SubSeq(s, i, i) = "\n" THEN <<i>> ELSE <<>>
      [] r.t = "wb" ->
            IF IsWordAt(s, i) # IsWordAt(s, i + 1) THEN <<i>> ELSE <<>>
      [] r.t = "alt" -> ConcatAll([k \in 1..Len(r.a) |-> M(r.a[k], s, i)])
      [] r.t = "seq" -> MSeq(r.a, 1, s, <<i>>)
      [] r.t = "rep" -> MRep(r, s, i, 0)

\* E lists, in the order a backtracking matcher tries them, the ends of the
\* matches of a[1..k-1] from the starting position; a[k] continues each.
MSeq(a, k, s, E) ==
    IF k > Len(a) \/ E = <<>> THEN E ELSE MSeq(a, k + 1, s, ContinueSeq(E, a[k], s))

\* n repetitions are already matched.  A repeated character class is a run
\* of characters, whose ends are listed directly.
MRep(r, s, i, n) ==
    IF r.r.t = "set"
    THEN RunEnds(r.lazy, i,
                 RunLength(r.r.s, s, i, IF r.hi = -1 THEN Len(s) - i
                                        ELSE Min({Len(s) - i, r.hi - n})),
                 IF r.lo > n THEN r.lo - n ELSE 0)
    ELSE IF r.lazy
         THEN (IF n >= r.lo THEN <<i>> ELSE <<>>)
              \o (IF r.hi = -1 \/ n < r.hi THEN Continue(M(r.r, s, i), r, s, n + 1) ELSE <<>>)
         ELSE (IF r.hi = -1 \/ n < r.hi THEN Continue(M(r.r, s, i), r, s, n + 1) ELSE <<>>)
              \o (IF n >= r.lo THEN <<i>> ELSE <<>>)

\* A pattern with one capturing group: pre (grp) post.
Pat(pre, grp, post) == [pre |-> pre, grp |-> grp, post |-> post]

NoMatch == [found |-> FALSE]
First(spans) == IF spans = <<>> THEN NoMatch ELSE spans[1]

\* The match of p that starts at position i: the span of the whole match
\* and of its group, or NoMatch.  E1, E2, E3 are the ends of pre, grp, post.
PostSpan(i, gs, ge, E3) ==
    IF E3 = <<>> THEN <<>>
    ELSE << [found |-> TRUE, start |-> i, end |-> E3[1], gs |-> gs, ge |-> ge] >>

GroupSpans(p, s, i, gs, E2) ==
    ConcatAll([k \in 1..Len(E2) |-> PostSpan(i, gs, E2[k], M(p.post, s, E2[k]))])

PreSpans(p, s, i, E1) ==
    ConcatAll([j \in 1..Len(E1) |-> GroupSpans(p, s, i, E1[j], M(p.grp, s, E1[j]))])

MatchAt(p, s, i) == First(PreSpans(p, s, i, M(p.pre, s, i)))

\* The match at the leftmost position of lo..hi that has one
RECURSIVE SearchIn(_, _, _, _)
OrElse(m, p, s, lo, hi) == IF m.found THEN m ELSE SearchIn(p, s, lo, hi)
SearchIn(p, s, lo, hi) ==
    IF lo > hi THEN NoMatch
    ELSE IF lo = hi THEN MatchAt(p, s, lo)
    ELSE OrElse(SearchIn(p, s, lo, (lo + hi) \div 2), p, s, (lo + hi) \div 2 + 1, hi)

\* re.search: the match at the leftmost position that has one, from position i on.
SearchFrom(p, s, i) == SearchIn(p, s, i, Len(s))

\* re.search(p, s, re.IGNORECASE [| re.MULTILINE])
Search(p, s) == SearchFrom(p, LowerStr(s), 0)

\* match.group(1)
Group1(m, s) == SubSeq(s, m.gs + 1, m.ge)

\* The successive non-overlapping matches of p, from position i on
\* (p matches no empty string)
RECURSIVE MatchesFrom(_, _, _)
AndOn(m, p, ls) == IF ~m.found THEN <<>> ELSE <<m>> \o MatchesFrom(p, ls, m.end)
MatchesFrom(p, ls, i) == AndOn(SearchFrom(p, ls, i), p, ls)

Matches(p, s) == MatchesFrom(p, LowerStr(s), 0)

\* re.findall(p, s): group 1 of the successive non-overlapping matches
Groups(ms, s) == [k \in 1..Len(ms) |-> Group1(ms[k], s)]
FindAll(p, s) == Groups(Matches(p, s), s)

\* re.sub(p, repl, s): the text between the matches, each match replaced
Replace(ms, repl, s) ==
    JoinAll([k \in 1..(Len(ms) + 1) |->
        IF k <= Len(ms)
        THEN SubSeq(s, (IF k = 1 THEN 1 ELSE ms[k - 1].end + 1), ms[k].start) \o repl
        ELSE SubSeq(s, (IF k = 1 THEN 1 ELSE ms[k - 1].end + 1), Len(s))])

ReSub(p, repl, s) == Replace(Matches(p, s), repl, s)

\* A regular expression matched as a whole against s
EndsAt(E, n) == \E k \in 1..Len(E) : E[k] = n
FullMatch(r, s) == EndsAt(M(r, s, 0), Len(s))

-----------------------------------------------------------------------------
(* Pattern tables of PDFProcessor *)

Letters == Upper \cup Lower
Lits(ws) == Alt([k \in 1..Len(ws) |-> Lit(ws[k])])
SpaceStar == Star(Cls(Space))

VENDOR_PATTERNS == <<
    \* (?:from|vendor|company)[\s:]+([A-Z][A-Za-z\s&.,]+?)(?:\n|invoice)
    Pat(Cat(<<Lits(<<"from", "vendor", "company">>), Plus(Cls(Space \cup {":"}))>>),
        Cat(<<Cls(Upper), RepLazy(Cls(Letters \cup Space \cup {"&", ".", ","}), 1, -1)>>),
        Lits(<<"\n", "invoice">>)),
    \* ^([A-Z][A-Za-z\s&.,]{3,30})
    Pat(Bol,
        Cat(<<Cls(Upper), Rep(Cls(Letters \cup Space \cup {"&", ".", ","}), 3, 30)>>),
        Eps) >>

INVOICE_NUMBER_PATTERNS == <<
    \* invoice\s*(?:number|#|no\.?)[\s:]*([A-Z0-9-]+)
    Pat(Cat(<<Lit("invoice"), SpaceStar,
              Alt(<<Lit("number"), Lit("#"), Cat(<<Lit("no"), Opt(Lit("."))>>)>>),
              Star(Cls(Space \cup {":"}))>>),
        Plus(Cls(Upper \cup Digit \cup {"-"})),
        Eps),
    \* (?:^|\n)(?:invoice|inv)[\s#:]*([A-Z0-9-]{3,})
    Pat(Cat(<<Alt(<<Bol, Lit("\n")>>), Lits(<<"invoice", "inv">>),
              Star(Cls(Space \cup {"#", ":"}))>>),
        Rep(Cls(Upper \cup Digit \cup {"-"}), 3, -1),
        Eps) >>

DateSep == Cls({"/", "-"})
DateCue == Cat(<<Lits(<<"date", "dated">>), Star(Cls(Space \cup {":"}))>>)
MonthAbbr == <<"jan", "feb", "mar", "apr", "may", "jun",
               "jul", "aug", "sep", "oct", "nov", "dec">>

DATE_PATTERNS == <<
    \* (?:date|dated)[\s:]*(\d{1,2}[/-]\d{1,2}[/-]\d{2,4})
    Pat(DateCue,
        Cat(<<Rep(Cls(Digit), 1, 2), DateSep, Rep(Cls(Digit), 1, 2), DateSep,
              Rep(Cls(Digit), 2, 4)>>),
        Eps),
    \* (?:date|dated)[\s:]*(\d{4}[/-]\d{1,2}[/-]\d{1,2})
    Pat(DateCue,
        Cat(<<Rep(Cls(Digit), 4, 4), DateSep, Rep(Cls(Digit), 1, 2), DateSep,
              Rep(Cls(Digit), 1, 2)>>),
        Eps),
    \* (\d{1,2}\s+(?:Jan|...|Dec)[a-z]*\s+\d{4})
    Pat(Eps,
        Cat(<<Rep(Cls(Digit), 1, 2), Plus(Cls(Space)), Lits(MonthAbbr), Star(Cls(Lower)),
              Plus(Cls(Space)), Rep(Cls(Digit), 4, 4)>>),
        Eps) >>

\* [0-9,]+(?:\.[0-9]{1,2})?
AmountDigits ==
    Cat(<<Plus(Cls(Digit \cup {","})), Opt(Cat(<<Lit("."), Rep(Cls(Digit), 1, 2)>>))>>)
\* \s*[:\-]?\s*
AmountSep == Cat(<<SpaceStar, Opt(Cls({":", "-"})), SpaceStar>>)
\* [₹$€£]?\s*[0-9,]+(?:\.[0-9]{1,2})?
AmountToken == Cat(<<Opt(Cls({"₹", "$", "€", "£"})), SpaceStar, AmountDigits>>)

AMOUNT_PATTERNS == <<
    Pat(Cat(<<Alt(<<Cat(<<Lit("grand"), SpaceStar, Lit("total")>>),
                    Cat(<<Lit("total"), SpaceStar, Lit("amount")>>),
                    Cat(<<Lit("amount"), SpaceStar, Lit("payable")>>),
                    Cat(<<Lit("net"), SpaceStar, Lit("amount")>>),
                    Cat(<<Lit("invoice"), SpaceStar, Lit("total")>>)>>),
              AmountSep>>),
        AmountToken, Eps),
    Pat(Cat(<<Alt(<<Lit("total"),
                    Cat(<<Lit("amount"), Plus(Cls(Space)), Lit("due")>>),
                    Lit("balance")>>),
              AmountSep>>),
        AmountToken, Eps),
    Pat(Cat(<<Cls({"₹", "$", "€", "£"}), SpaceStar>>), AmountDigits, Eps),
    Pat(Cat(<<Alt(<<Cat(<<Lit("rs"), Opt(Lit("."))>>), Lit("inr")>>), AmountSep>>),
        AmountDigits, Eps) >>

CurrencyCodes == <<"usd", "eur", "gbp", "cad", "aud", "inr", "sgd",
                   "aed", "jpy", "cny", "hkd", "myr", "thb">>
CurrencySymbols == {"$", "€", "£", "₹", "¥"}
\* \b(Rs\.?|Rupees?|INR)\b  (line 173; the third CURRENCY_PATTERNS entry
\* lists the same alternatives with INR second)
RupeeWords(inrSecond) ==
    LET rs == Cat(<<Lit("rs"), Opt(Lit("."))>>)
        rupees == Cat(<<Lit("rupee"), Opt(Lit("s"))>>)
    IN  Pat(WordB,
            IF inrSecond THEN Alt(<<rs, Lit("inr"), rupees>>)
            ELSE Alt(<<rs, rupees, Lit("inr")>>),
            WordB)

CURRENCY_PATTERNS == <<
    Pat(WordB, Lits(CurrencyCodes), WordB),
    Pat(Eps, Cls(CurrencySymbols), Eps),
    RupeeWords(TRUE) >>

CurrencyMapKeys == {"$", "€", "£", "₹", "¥", "Rs", "Rs.", "Rupee", "Rupees"}
CURRENCY_MAP ==
    [k \in CurrencyMapKeys |->
        CASE k = "$" -> "USD" [] k = "€" -> "EUR" [] k = "£" -> "GBP"
          [] k = "¥" -> "JPY" [] OTHER -> "INR"]

\* The dirham and baht signs are written by their code points.
Region(r, sy, n) == [region |-> r, symbol |-> sy, name |-> n]
CurrencyRegionKeys == {UpperStr(CurrencyCodes[k]) : k \in 1..Len(CurrencyCodes)}
CURRENCY_REGIONS ==
    [c \in CurrencyRegionKeys |->
        CASE c = "INR" -> Region("India", "₹", "Indian Rupee")
          [] c = "USD" -> Region("United States", "$", "US Dollar")
          [] c = "EUR" -> Region("Europe", "€", "Euro")
          [] c = "GBP" -> Region("United Kingdom", "£", "British Pound")
          [] c = "CAD" -> Region("Canada", "C$", "Canadian Dollar")
          [] c = "AUD" -> Region("Australia", "A$", "Australian Dollar")
          [] c = "SGD" -> Region("Singapore", "S$", "Singapore Dollar")
          [] c = "AED" -> Region("UAE", "<U+062F U+002E U+0625>", "UAE Dirham")
          [] c = "JPY" -> Region("Japan", "¥", "Japanese Yen")
          [] c = "CNY" -> Region("China", "¥", "Chinese Yuan")
          [] c = "HKD" -> Region("Hong Kong", "HK$", "Hong Kong Dollar")
          [] c = "MYR" -> Region("Malaysia", "RM", "Malaysian Ringgit")
          [] c = "THB" -> Region("Thailand", "<U+0E3F>", "Thai Baht")]

\* Categories, were Travel tested first and Food last
CategoriesTravelFirst == <<"Travel", "Shopping", "Bills", "Food">>

\* The keys of CATEGORY_PATTERNS in the order of the dict
Categories == <<"Food", "Shopping", "Bills", "Travel">>
CATEGORY_PATTERNS ==
    [c \in {Categories[k] : k \in 1..Len(Categories)} |->
        CASE c = "Food" ->
                Pat(Eps, Alt(<<Lit("swiggy"), Lit("zomato"), Lit("dominos"), Lit("pizza"),
                               Lit("restaurant"), Lit("cafe"), Lit("food"),
                               Cat(<<Lit("uber"), SpaceStar, Lit("eats")>>)>>), Eps)
          [] c = "Shopping" ->
                Pat(Eps, Lits(<<"amazon", "flipkart", "myntra", "ajio", "shopping",
                                "retail">>), Eps)
          [] c = "Bills" ->
                Pat(Eps, Lits(<<"electricity", "water", "gas", "internet", "broadband",
                                "utility", "bill">>), Eps)
          [] c = "Travel" ->
                Pat(Eps, Lits(<<"uber", "ola", "flight", "hotel", "booking", "airbnb",
                                "travel">>), Eps)]

-----------------------------------------------------------------------------
(* Core helpers of PDFProcessor *)

\* Optional[str]
None == [some |-> FALSE, v |-> ""]
Some(v) == [some |-> TRUE, v |-> v]
\* Python truthiness of an Optional[str]: None and "" are false
Truthy(o) == o.some /\ o.v # ""

RECURSIVE ApplyFrom(_, _, _)
\* Matched, were a match with an empty trimmed capture passed over
MatchedNonEmpty(match, s, patterns, k) ==
    IF match.found /\ Strip(Group1(match, s)) # "" THEN Some(Strip(Group1(match, s)))
    ELSE ApplyFrom(s, patterns, k + 1)

\* lines 112-114, match being the result of re.search for patterns[k]
Matched(match, s, patterns, k) ==
    IF match.found THEN Some(Strip(Group1(match, s)))
    ELSE ApplyFrom(s, patterns, k + 1)

ApplyFrom(s, patterns, k) ==
    IF k > Len(patterns) THEN None
    ELSE Matched(Search(patterns[k], s), s, patterns, k)

_apply_patterns(s, patterns) == ApplyFrom(s, patterns, 1)

-----------------------------------------------------------------------------
(* Numbers and their decimal notation *)

DigitVal(c) == IndexIn(c, DigitChars) - 1
DigitStr(d) == SubSeq(DigitChars, d + 1, d + 1)

RECURSIVE StrToNat(_)
StrToNat(s) ==
    IF s = "" THEN 0
    ELSE StrToNat(SubSeq(s, 1, Len(s) - 1)) * 10 + DigitVal(SubSeq(s, Len(s), Len(s)))

RECURSIVE NatToStr(_)
NatToStr(n) == IF n < 10 THEN DigitStr(n) ELSE NatToStr(n \div 10) \o DigitStr(n % 10)

RECURSIVE ZeroPad(_, _)
ZeroPad(s, w) == IF Len(s) >= w THEN s ELSE ZeroPad("0" \o s, w)

\* float(s).  The accepted notation is [sign] digits [. [digits]] or
\* [sign] . digits, surrounding whitespace ignored; anything else raises
\* ValueError (ok = FALSE).  The value is in hundredths: the amount patterns
\* of the source capture at most two decimals.  Exponents, "inf", "nan" and
\* digit-group underscores, which float() also accepts, are not modelled.
FloatSyntax ==
    Cat(<<Opt(Cls({"+", "-"})),
          Alt(<<Cat(<<Plus(Cls(Digit)), Opt(Cat(<<Lit("."), Star(Cls(Digit))>>))>>),
                Cat(<<Lit("."), Plus(Cls(Digit))>>)>>)>>)

\* The hundredths of an unsigned decimal whose point is at position dot
Hundredths(body, dot) ==
    StrToNat(SubSeq(body, 1, dot - 1)) * 100
        + StrToNat(SubSeq(SubSeq(body, dot + 1, Len(body)) \o "00", 1, 2))

DotOf(body) ==
    Min({i \in 1..Len(body) : SubSeq(body, i, i) = "."} \cup {Len(body) + 1})

Unsigned(s) == IF s # "" /\ SubSeq(s, 1, 1) \in {"+", "-"} THEN SubSeq(s, 2, Len(s)) ELSE s

FloatOf(s) ==
    IF ~FullMatch(FloatSyntax, s) THEN [ok |-> FALSE, v |-> 0]
    ELSE IF SubSeq(s, 1, 1) = "-"
         THEN [ok |-> TRUE, v |-> 0 - Hundredths(Unsigned(s), DotOf(Unsigned(s)))]
         ELSE [ok |-> TRUE, v |-> Hundredths(Unsigned(s), DotOf(Unsigned(s)))]

ParseFloat(str) == FloatOf(Strip(str))

-----------------------------------------------------------------------------
(* datetime.strptime / strftime *)

MonthFull == <<"january", "february", "march", "april", "may", "june", "july",
               "august", "september", "october", "november", "december">>

\* The regular expression _strptime substitutes for a directive; a blank of
\* the format stands for \s+, any other character for itself.
Directive(d) ==
    CASE d = "%d" -> Alt(<<Cat(<<Lit("3"), Cls({"0", "1"})>>),
                          Cat(<<Cls({"1", "2"}), Cls(Digit)>>),
                          Cat(<<Lit("0"), Cls(Digit \ {"0"})>>),
                          Cls(Digit \ {"0"}),
                          Cat(<<Lit(" "), Cls(Digit \ {"0"})>>)>>)
      [] d = "%m" -> Alt(<<Cat(<<Lit("1"), Cls({"0", "1", "2"})>>),
                          Cat(<<Lit("0"), Cls(Digit \ {"0"})>>),
                          Cls(Digit \ {"0"})>>)
      [] d = "%Y" -> Rep(Cls(Digit), 4, 4)
      [] d = "%b" -> Lits(MonthAbbr)
      [] d = "%B" -> Lits(MonthFull)
      [] d = " " -> Plus(Cls(Space))
      [] OTHER -> Lit(d)

\* The ways the format fmt[k..] matches s from position i on: each a
\* sequence of the end positions of its parts, in matching order.
RECURSIVE FormatPaths(_, _, _, _)
Prefixed(e, rest) == [n \in 1..Len(rest) |-> <<e>> \o rest[n]]
PathsVia(E, fmt, k, s) ==
    ConcatAll([j \in 1..Len(E) |-> Prefixed(E[j], FormatPaths(fmt, k, s, E[j]))])
FormatPaths(fmt, k, s, i) ==
    IF k > Len(fmt) THEN << <<>> >>
    ELSE PathsVia(M(Directive(fmt[k]), s, i), fmt, k + 1, s)

IsLeap(y) == (y % 4 = 0 /\ y % 100 # 0) \/ y % 400 = 0
DaysInMonth(y, m) ==
    IF m = 2 THEN (IF IsLeap(y) THEN 29 ELSE 28)
    ELSE IF m \in {4, 6, 9, 11} THEN 30 ELSE 31

IndexOf(w, ws) == CHOOSE k \in 1..Len(ws) : ws[k] = w
Has(d, fmt) == \E k \in 1..Len(fmt) : fmt[k] = d

\* The part of s that the directive d of the format matched along path
Field(d, fmt, s, path) ==
    SubSeq(s, (IF IndexOf(d, fmt) = 1 THEN 0 ELSE path[IndexOf(d, fmt) - 1]) + 1,
           path[IndexOf(d, fmt)])

MonthOf(fmt, s, path) ==
    IF Has("%m", fmt) THEN StrToNat(Field("%m", fmt, s, path))
    ELSE IF Has("%b", fmt) THEN IndexOf(Field("%b", fmt, s, path), MonthAbbr)
    ELSE IndexOf(Field("%B", fmt, s, path), MonthFull)

\* datetime(y, m, d): ValueError (ok = FALSE) for a date that does not exist
DateOf(y, m, d) ==
    IF y < 1 \/ d > DaysInMonth(y, m) THEN [ok |-> FALSE]
    ELSE [ok |-> TRUE, y |-> y, m |-> m, d |-> d]

\* The first way the format matches must use up the whole string
Parsed(paths, fmt, s) ==
    IF paths = <<>> \/ paths[1][Len(fmt)] # Len(s) THEN [ok |-> FALSE]
    ELSE DateOf(StrToNat(Field("%Y", fmt, s, paths[1])),
                MonthOf(fmt, s, paths[1]),
                StrToNat(LStrip(Field("%d", fmt, s, paths[1]))))

\* datetime.strptime(date_str, fmt): the date, or ok = FALSE for ValueError
strptime(date_str, fmt) ==
    Parsed(FormatPaths(fmt, 1, LowerStr(date_str), 0), fmt, LowerStr(date_str))

\* dt.strftime('%Y-%m-%d')
strftime(dt) ==
    ZeroPad(NatToStr(dt.y), 4) \o "-" \o ZeroPad(NatToStr(dt.m), 2) \o "-"
        \o ZeroPad(NatToStr(dt.d), 2)

\* date_formats, were day/month/year tried before month/day/year
DayFirstFormats == <<
    <<"%d", "/", "%m", "/", "%Y">>, <<"%m", "/", "%d", "/", "%Y">>,
    <<"%Y", "-", "%m", "-", "%d">>,
    <<"%m", "-", "%d", "-", "%Y">>, <<"%d", "-", "%m", "-", "%Y">>,
    <<"%d", " ", "%b", " ", "%Y">>, <<"%d", " ", "%B", " ", "%Y">> >>

date_formats == <<
    <<"%m", "/", "%d", "/", "%Y">>, <<"%d", "/", "%m", "/", "%Y">>,
    <<"%Y", "-", "%m", "-", "%d">>,
    <<"%m", "-", "%d", "-", "%Y">>, <<"%d", "-", "%m", "-", "%Y">>,
    <<"%d", " ", "%b", " ", "%Y">>, <<"%d", " ", "%B", " ", "%Y">> >>

RECURSIVE NormalizeFrom(_, _)
\* lines 126-130, dt being the result of strptime for date_formats[k]
Formatted(dt, date_str, k) ==
    IF dt.ok THEN strftime(dt) ELSE NormalizeFrom(date_str, k + 1)

\* NormalizeFrom, were a string that no format parses replaced by "N/A"
NormalizeOrNA(date_str, k) ==
    IF k > Len(date_formats) THEN "N/A"
    ELSE Formatted(strptime(date_str, date_formats[k]), date_str, k)

NormalizeFrom(date_str, k) ==
    IF k > Len(date_formats) THEN date_str
    ELSE Formatted(strptime(date_str, date_formats[k]), date_str, k)

_normalize_date(date_str) == NormalizeFrom(date_str, 1)

-----------------------------------------------------------------------------
(* Amounts *)

\* [₹$€£¥,\s]
AmountNoise == Pat(Eps, Cls({"₹", "$", "€", "£", "¥", ","} \cup Space), Eps)
\* (Rs\.?|INR), re.IGNORECASE
RsText == Pat(Eps, Alt(<<Cat(<<Lit("rs"), Opt(Lit("."))>>), Lit("inr")>>), Eps)

\* lines 140-143
FloatOrZero(f) == IF f.ok THEN f.v ELSE 0

_parse_amount(amount_str) ==
    FloatOrZero(ParseFloat(ReSub(RsText, "", ReSub(AmountNoise, "", amount_str))))

\* ([0-9]{1,3}(?:,[0-9]{2,3})*(?:\.[0-9]{1,2})?)
GroupedNumber ==
    Pat(Eps,
        Cat(<<Rep(Cls(Digit), 1, 3),
              Star(Cat(<<Lit(","), Rep(Cls(Digit), 2, 3)>>)),
              Opt(Cat(<<Lit("."), Rep(Cls(Digit), 1, 2)>>))>>),
        Eps)

\* lines 154-164; some = FALSE stands for None
Positive(parsed) == {parsed[k].v : k \in {j \in 1..Len(parsed) : parsed[j].ok /\ parsed[j].v > 0}}
\* MaxOrNone, were the smallest value returned
MinOrNone(values) ==
    IF values # {} THEN [some |-> TRUE, v |-> Min(values)] ELSE [some |-> FALSE, v |-> 0]
MaxOrNone(values) ==
    IF values # {} THEN [some |-> TRUE, v |-> Max(values)] ELSE [some |-> FALSE, v |-> 0]
ParseEach(candidates) ==
    [k \in 1..Len(candidates) |-> ParseFloat(ReSub(AmountNoise, "", candidates[k]))]

_fallback_amount(s) == MaxOrNone(Positive(ParseEach(FindAll(GroupedNumber, s))))

-----------------------------------------------------------------------------
(* Currency, category, classification *)

HasChar(s, c) == \E i \in 1..Len(s) : SubSeq(s, i, i) = c

\* lines 178-182, currency being the result of _apply_patterns
Standardize(currency) ==
    IF Truthy(currency)
    THEN Some(UpperStr(IF currency.v \in DOMAIN CURRENCY_MAP
                       THEN CURRENCY_MAP[currency.v] ELSE currency.v))
    ELSE None

\* _extract_currency without the rupee sign's priority (lines 169-170)
ExtractCurrencyByPatterns(s) ==
    IF Search(RupeeWords(FALSE), s).found THEN Some("INR")
    ELSE Standardize(_apply_patterns(s, CURRENCY_PATTERNS))

_extract_currency(s) ==
    IF HasChar(s, "₹") THEN Some("INR")
    ELSE IF Search(RupeeWords(FALSE), s).found THEN Some("INR")
    ELSE Standardize(_apply_patterns(s, CURRENCY_PATTERNS))

RECURSIVE CategoryFrom(_, _)
CategoryFrom(combined_text, k) ==
    IF k > Len(Categories) THEN "Others"
    ELSE IF Search(CATEGORY_PATTERNS[Categories[k]], combined_text).found
         THEN Categories[k]
         ELSE CategoryFrom(combined_text, k + 1)

_detect_category(s, vendor) == CategoryFrom(LowerStr(s \o " " \o vendor), 1)

\* (invoice|bill|receipt|payment|due|total|amount)
invoice_keywords ==
    Pat(Eps, Lits(<<"invoice", "bill", "receipt", "payment", "due", "total", "amount">>), Eps)

\* InvoiceScore, were a positive amount worth one point
InvoiceScoreFlat(vendor, invoice_number, amount, has_invoice_keywords) ==
      (IF vendor # "N/A" /\ Len(vendor) > 2 THEN 1 ELSE 0)
    + (IF invoice_number # "N/A" THEN 2 ELSE 0)
    + (IF amount > 0 THEN 1 ELSE 0)
    + (IF has_invoice_keywords THEN 1 ELSE 0)

InvoiceScore(vendor, invoice_number, amount, has_invoice_keywords) ==
      (IF vendor # "N/A" /\ Len(vendor) > 2 THEN 1 ELSE 0)
    + (IF invoice_number # "N/A" THEN 2 ELSE 0)
    + (IF amount > 0 THEN 2 ELSE 0)
    + (IF has_invoice_keywords THEN 1 ELSE 0)

\* Classify, were the status of the lowest scores left at "Partial data"
ClassifyLoose(score) ==
    IF score >= 4 THEN <<"Invoice", "Complete">>
    ELSE IF score >= 2 THEN <<"Invoice", "Partial data">>
    ELSE <<"Not an invoice", "Partial data">>

Classify(score) ==
    IF score >= 4 THEN <<"Invoice", "Complete">>
    ELSE IF score >= 2 THEN <<"Invoice", "Partial data">>
    ELSE <<"Not an invoice", "N/A">>

_is_invoice(s, vendor, invoice_number, amount) ==
    Classify(InvoiceScore(vendor, invoice_number, amount, Search(invoice_keywords, s).found))

-----------------------------------------------------------------------------
(* Main entry point *)

\* A PDF file: unreadable, or the texts page.extract_text() gives per page
PdfFile(readable, pages) == [readable |-> readable, pages |-> pages]

JoinPages(pages) == JoinAll([k \in 1..Len(pages) |-> pages[k] \o "\n"])

\* ok = FALSE stands for the RuntimeError raised when the file cannot be read
extract_text_from_pdf(file) ==
    IF file.readable THEN [ok |-> TRUE, text |-> JoinPages(file.pages)]
    ELSE [ok |-> FALSE, text |-> ""]

\* re.sub(r'[ \t]+', ' ', raw_text)
NormalizeText(raw_text) == ReSub(Pat(Eps, Plus(Cls({" ", "\t"})), Eps), " ", raw_text)

\* x or 'N/A'
OrNA(o) == IF Truthy(o) THEN o.v ELSE "N/A"

\* lines 229, 232-237 and 240-243, given what _apply_patterns,
\* _fallback_amount and _extract_currency returned
DateFrom(date_raw) == IF Truthy(date_raw) THEN _normalize_date(date_raw.v) ELSE "N/A"
\* FallbackOrZero, were "no amount" marked by a negative number
FallbackOrMinusOne(fallback) == IF fallback.some THEN fallback.v ELSE 0 - 100
FallbackOrZero(fallback) == IF fallback.some THEN fallback.v ELSE 0
\* AmountFrom, were a cue parsed to 0.0 handed on to the fallback
AmountFromPositive(amount_raw, s) ==
    IF Truthy(amount_raw) /\ _parse_amount(amount_raw.v) > 0 THEN _parse_amount(amount_raw.v)
    ELSE FallbackOrZero(_fallback_amount(s))
AmountFrom(amount_raw, s) ==
    IF Truthy(amount_raw) THEN _parse_amount(amount_raw.v)
    ELSE FallbackOrZero(_fallback_amount(s))
\* CurrencyFrom, were the default applied whether or not a vendor was found
CurrencyFromAlwaysINR(currency, vendor) == IF ~Truthy(currency) THEN "INR" ELSE currency.v
CurrencyFrom(currency, vendor) ==
    IF ~Truthy(currency) /\ vendor # "N/A" THEN "INR" ELSE OrNA(currency)

ExtractDate(s) == DateFrom(_apply_patterns(s, DATE_PATTERNS))
ExtractAmount(s) == AmountFrom(_apply_patterns(s, AMOUNT_PATTERNS), s)
ResolveCurrency(s, vendor) == CurrencyFrom(_extract_currency(s), vendor)

\* CurrencyInfo, were every metadata field of an unlisted code "Unknown"
CurrencyInfoUnknown(currency) ==
    IF currency \in DOMAIN CURRENCY_REGIONS THEN CURRENCY_REGIONS[currency]
    ELSE Region("Unknown", "Unknown", "Unknown")

\* line 245
CurrencyInfo(currency) ==
    IF currency \in DOMAIN CURRENCY_REGIONS THEN CURRENCY_REGIONS[currency]
    ELSE Region("Unknown", currency, currency)

\* IsIncomplete, were the date left out of the test
IsIncompleteNoDate(date, amount, currency) == amount = 0 \/ currency = "N/A"

\* line 255
IsIncomplete(date, amount, currency) == date = "N/A" \/ amount = 0 \/ currency = "N/A"

\* Assemble, were is_incomplete raised for invoices only
AssembleInvoiceOnly(vendor, invoice_number, date, amount, currency, currency_info, category, cls) ==
    [vendor_name |-> vendor,
     invoice_number |-> invoice_number,
     date |-> date,
     total_amount |-> amount,
     currency |-> currency,
     currency_symbol |-> currency_info.symbol,
     currency_name |-> currency_info.name,
     currency_region |-> currency_info.region,
     category |-> category,
     invoice_type |-> cls[1],
     status |-> cls[2],
     is_incomplete |-> cls[1] = "Invoice" /\ IsIncomplete(date, amount, currency)]

\* lines 257-270
Assemble(vendor, invoice_number, date, amount, currency, currency_info, category, cls) ==
    [vendor_name |-> vendor,
     invoice_number |-> invoice_number,
     date |-> date,
     total_amount |-> amount,
     currency |-> currency,
     currency_symbol |-> currency_info.symbol,
     currency_name |-> currency_info.name,
     currency_region |-> currency_info.region,
     category |-> category,
     invoice_type |-> cls[1],
     status |-> cls[2],
     is_incomplete |-> IsIncomplete(date, amount, currency)]

\* lines 245-253
Classified(s, vendor, invoice_number, date, amount, currency) ==
    Assemble(vendor, invoice_number, date, amount, currency, CurrencyInfo(currency),
             _detect_category(s, vendor), _is_invoice(s, vendor, invoice_number, amount))

\* lines 226-243
WithVendor(s, vendor) ==
    Classified(s, vendor, OrNA(_apply_patterns(s, INVOICE_NUMBER_PATTERNS)),
               ExtractDate(s), ExtractAmount(s), ResolveCurrency(s, vendor))

\* line 225
Normalized(s) == WithVendor(s, OrNA(_apply_patterns(s, VENDOR_PATTERNS)))

\* The record built from the text of a readable file (lines 223-270)
RecordOf(raw_text) == Normalized(NormalizeText(raw_text))

\* extract_invoice_data(pdf_path): the record, or raised = TRUE
Extracted(raw) ==
    IF raw.ok THEN [raised |-> FALSE, data |-> RecordOf(raw.text)] ELSE [raised |-> TRUE]

extract_invoice_data(file) == Extracted(extract_text_from_pdf(file))

-----------------------------------------------------------------------------
(* Calls of one function on drawn arguments *)

NotCalled == [called |-> FALSE]
Returned(v) == [called |-> TRUE, v |-> v]

MaxSessions == 1
SessionIds == 1..MaxSessions

\* A session directory that does not exist
NoDir == [exists |-> FALSE, files |-> {}]

\* The endpoints' state at start-up (app.py lines 28-31): UPLOAD_DIR and
\* OUTPUT_DIR hold no session directory.  It stays so while one function of
\* the processor is checked on its own.
NoSessions ==
    /\ uploads = [s \in SessionIds |-> NoDir]
    /\ outputs = [s \in SessionIds |-> NoDir]
    /\ issued = {}
    /\ response = [op |-> "none"]

-----------------------------------------------------------------------------
(* extract_invoice_data on drawn documents *)

MaxLines == 4

Lines == <<"ABC Traders", "Invoice No: INV-2024-001", "Date: 01/02/2024",
           "Grand Total: ₹5,000", "Date: 01/02/24", "Total: ,">>

\* The line sequences without repetition, at most MaxLines long
LineSeqs ==
    UNION {{q \in [1..n -> 1..Len(Lines)] : \A a, b \in 1..n : q[a] = q[b] => a = b}
           : n \in 0..MaxLines}

PageText(q) ==
    JoinAll([k \in 1..Len(q) |-> IF k < Len(q) THEN Lines[q[k]] \o "\n" ELSE Lines[q[k]]])

Documents ==
    {PdfFile(TRUE, <<PageText(q)>>) : q \in LineSeqs} \cup {PdfFile(FALSE, <<>>)}

InitExtract ==
    /\ args \in {[pdf |-> d] : d \in Documents}
    /\ ret = NotCalled
    /\ NoSessions

Extract ==
    /\ ~ret.called
    /\ ret' = Returned(extract_invoice_data(args.pdf))
    /\ UNCHANGED <<args, uploads, outputs, issued, response>>

NextExtract == Extract

SpecExtract == InitExtract /\ [][NextExtract]_vars

\* A record was produced
Produced == ret.called /\ ~ret.v.raised

\* The document of the end-to-end example: the four lines in order
C2_Document == PdfFile(TRUE, <<PageText(<<1, 2, 3, 4>>)>>)

\* C2: the text "ABC Traders\nInvoice No: INV-2024-001\nDate: 01/02/2024\n
\* Grand Total: ₹5,000\n" yields vendor_name "ABC Traders", invoice_number
\* "INV-2024-001", date "2024-01-02", total_amount 5000.0, currency "INR",
\* category "Others", invoice_type "Invoice", status "Complete" and
\* is_incomplete false; the vendor stops at the end of the first line.
C2_EndToEnd ==
    (ret.called /\ args.pdf = C2_Document) =>
        /\ ~ret.v.raised
        /\ ret.v.data.vendor_name = "ABC Traders"
        /\ ret.v.data.invoice_number = "INV-2024-001"
        /\ ret.v.data.date = "2024-01-02"
        /\ ret.v.data.total_amount = 500000
        /\ ret.v.data.currency = "INR"
        /\ ret.v.data.category = "Others"
        /\ ret.v.data.invoice_type = "Invoice"
        /\ ret.v.data.status = "Complete"
        /\ ret.v.data.is_incomplete = FALSE

\* What the example yields: the vendor runs on into the second line
C2_VendorSpansLines ==
    /\ Produced
    /\ args.pdf = C2_Document
    /\ ret.v.data.vendor_name = "ABC Traders\nInvoice No"
    /\ ret.v.data.invoice_number = "INV-2024-001"
    /\ ret.v.data.date = "2024-01-02"
    /\ ret.v.data.total_amount = 500000
    /\ ret.v.data.currency = "INR"
    /\ ret.v.data.category = "Others"
    /\ ret.v.data.invoice_type = "Invoice"
    /\ ret.v.data.status = "Complete"
    /\ ret.v.data.is_incomplete = FALSE

\* C4: in every record extract_invoice_data produces, status is "N/A" if and
\* only if invoice_type is "Not an invoice", and status is "Complete" or
\* "Partial data" exactly when invoice_type is "Invoice".
C4_StatusMatchesType ==
    Produced =>
        /\ ret.v.data.invoice_type \in {"Invoice", "Not an invoice"}
        /\ ret.v.data.status = "N/A" <=> ret.v.data.invoice_type = "Not an invoice"
        /\ ret.v.data.status \in {"Complete", "Partial data"}
               <=> ret.v.data.invoice_type = "Invoice"

\* A document that is not an invoice: the vendor line alone
C4_Witness ==
    /\ Produced
    /\ args.pdf = PdfFile(TRUE, <<PageText(<<1>>)>>)
    /\ ret.v.data.invoice_type = "Not an invoice"
    /\ ret.v.data.status = "N/A"

\* One of date, amount, currency could not be determined
Missing(data) == data.date = "N/A" \/ data.total_amount = 0 \/ data.currency = "N/A"

\* C5: in every record extract_invoice_data produces, is_incomplete is true
\* if and only if date is "N/A" or total_amount is 0.0 or currency is "N/A",
\* whatever the status.
C5_IncompleteIffMissing == Produced => (ret.v.data.is_incomplete <=> Missing(ret.v.data))

\* A record with status "Complete" whose date is "N/A" and nothing else
\* missing: it is flagged incomplete
C5_Witness ==
    /\ Produced
    /\ ret.v.data.status = "Complete"
    /\ ret.v.data.date = "N/A"
    /\ ret.v.data.total_amount > 0
    /\ ret.v.data.currency # "N/A"
    /\ ret.v.data.is_incomplete = TRUE

\* C6 as claimed: is_incomplete is true if and only if the document was
\* classified as an Invoice and one of date, amount, currency could not be
\* determined; a record that is not an invoice never has is_incomplete true.
C6_IncompleteOnlyForInvoices ==
    Produced =>
        /\ ret.v.data.is_incomplete
               <=> (ret.v.data.invoice_type = "Invoice" /\ Missing(ret.v.data))
        /\ ret.v.data.invoice_type = "Not an invoice" => ret.v.data.is_incomplete = FALSE

\* C6 as amended: for a record classified as an Invoice is_incomplete is true
\* if and only if one of date, amount, currency could not be determined; a
\* record that is not an invoice has no amount and always has is_incomplete
\* true.
C6_IncompleteWhateverType ==
    Produced =>
        /\ ret.v.data.invoice_type = "Invoice"
               => (ret.v.data.is_incomplete <=> Missing(ret.v.data))
        /\ ret.v.data.invoice_type = "Not an invoice"
               => (ret.v.data.total_amount = 0 /\ ret.v.data.is_incomplete = TRUE)

\* A record that is not an invoice and is flagged incomplete
C6_Witness ==
    /\ Produced
    /\ ret.v.data.invoice_type = "Not an invoice"
    /\ ret.v.data.vendor_name = "ABC Traders"
    /\ ret.v.data.is_incomplete = TRUE

\* The text the fields are extracted from
C8_Text == NormalizeText(extract_text_from_pdf(args.pdf).text)

\* The matched date fits none of the supported formats
C8_DateUnparsable(date_raw) ==
    /\ Truthy(date_raw)
    /\ \A k \in 1..Len(date_formats) : ~strptime(date_raw.v, date_formats[k]).ok

\* The matched amount holds no digit
C8_AmountNotNumeric(amount_raw) ==
    /\ Truthy(amount_raw)
    /\ \A i \in 1..Len(amount_raw.v) : SubSeq(amount_raw.v, i, i) \notin Digit

\* The fields that are extracted on their own are what their extractors give
C8_OthersUnaffected(text, date_raw, amount_raw, data) ==
    /\ data.vendor_name = OrNA(_apply_patterns(text, VENDOR_PATTERNS))
    /\ data.invoice_number = OrNA(_apply_patterns(text, INVOICE_NUMBER_PATTERNS))
    /\ C8_DateUnparsable(date_raw) => data.total_amount = AmountFrom(amount_raw, text)
    /\ C8_AmountNotNumeric(amount_raw) => data.date = DateFrom(date_raw)

C8_Sentinel(date_raw, amount_raw, data) ==
    /\ C8_DateUnparsable(date_raw) => data.date = "N/A"
    /\ C8_AmountNotNumeric(amount_raw) => data.total_amount = 0

C8_RawDate(text, date_raw, amount_raw, data) ==
    /\ C8_DateUnparsable(date_raw) => data.date = date_raw.v
    /\ C8_AmountNotNumeric(amount_raw) => data.total_amount = 0
    /\ C8_OthersUnaffected(text, date_raw, amount_raw, data)

\* C8 as claimed: when the matched date fits no supported format the record's
\* date is "N/A", when the matched amount is not numeric its total_amount is
\* 0.0, and a record is still produced.
C8_SentinelOnParseFailure ==
    (ret.called /\ args.pdf.readable) =>
        /\ ~ret.v.raised
        /\ C8_Sentinel(_apply_patterns(C8_Text, DATE_PATTERNS),
                       _apply_patterns(C8_Text, AMOUNT_PATTERNS), ret.v.data)

\* C8 as amended: when the matched date fits no supported format the record's
\* date is the matched string unchanged, when the matched amount is not
\* numeric its total_amount is 0.0, the independently extracted fields are
\* not affected, and a record is still produced.
C8_RawDateZeroAmount ==
    (ret.called /\ args.pdf.readable) =>
        /\ ~ret.v.raised
        /\ C8_RawDate(C8_Text, _apply_patterns(C8_Text, DATE_PATTERNS),
                      _apply_patterns(C8_Text, AMOUNT_PATTERNS), ret.v.data)

\* A document whose date has a two-digit year and whose total is a comma
C8_Witness ==
    /\ Produced
    /\ C8_DateUnparsable(_apply_patterns(C8_Text, DATE_PATTERNS))
    /\ C8_AmountNotNumeric(_apply_patterns(C8_Text, AMOUNT_PATTERNS))
    /\ ret.v.data.date = "01/02/24"
    /\ ret.v.data.total_amount = 0
    /\ ret.v.data.vendor_name = "ABC Traders\nInvoice No"

-----------------------------------------------------------------------------
(* _is_invoice on drawn field values *)

SampleVendors == {"N/A", "AB", "ABC Traders"}
SampleNumbers == {"N/A", "INV-2024-001"}
SampleAmounts == {0 - 100, 0, 1, 500000}
SampleTexts == {"", "hello", "Grand Total: 5", "PAYMENT DUE", "Bill", "receipts", "amoun t"}

InitIsInvoice ==
    /\ args \in [text : SampleTexts, vendor : SampleVendors,
                 invoice_number : SampleNumbers, amount : SampleAmounts]
    /\ ret = NotCalled
    /\ NoSessions

IsInvoice ==
    /\ ~ret.called
    /\ ret' = Returned(_is_invoice(args.text, args.vendor, args.invoice_number, args.amount))
    /\ UNCHANGED <<args, uploads, outputs, issued, response>>

NextIsInvoice == IsInvoice

SpecIsInvoice == InitIsInvoice /\ [][NextIsInvoice]_vars

\* s holds w at some place, letter case aside
Contains(s, w) ==
    \E i \in 1..(Len(s) - Len(w) + 1) : LowerStr(SubSeq(s, i, i + Len(w) - 1)) = w

C3_Keywords == {"invoice", "bill", "receipt", "payment", "due", "total", "amount"}

C3_Points(b, n) == IF b THEN n ELSE 0

C3_Score ==
      C3_Points(args.vendor # "N/A" /\ Len(args.vendor) > 2, 1)
    + C3_Points(args.invoice_number # "N/A", 2)
    + C3_Points(args.amount > 0, 2)
    + C3_Points(\E w \in C3_Keywords : Contains(args.text, w), 1)

\* C3: _is_invoice scores 1 for a resolved vendor longer than 2 characters,
\* 2 for a resolved invoice number, 2 for an amount above 0 and 1 for an
\* invoice keyword in the text, and returns (Invoice, Complete) for a score
\* of 4 or more, (Invoice, Partial data) for 2 or 3 and (Not an invoice, N/A)
\* below 2.
C3_ScoreDecides ==
    ret.called =>
        /\ C3_Score >= 4 => ret.v = <<"Invoice", "Complete">>
        /\ C3_Score \in {2, 3} => ret.v = <<"Invoice", "Partial data">>
        /\ C3_Score < 2 => ret.v = <<"Not an invoice", "N/A">>

\* Vendor, amount and keyword without an invoice number: score 4, Complete
C3_Witness ==
    /\ ret.called
    /\ args.vendor = "ABC Traders" /\ args.invoice_number = "N/A"
    /\ args.amount = 500000 /\ args.text = "Grand Total: 5"
    /\ ret.v = <<"Invoice", "Complete">>

-----------------------------------------------------------------------------
(* _apply_patterns on drawn texts and pattern lists *)

MaxTextLen == 3
MaxPatterns == 2

SampleChars == <<"a", "B", " ">>
\* a(\s*)   (b+)   (a)
SamplePatterns == <<Pat(Lit("a"), Star(Cls(Space)), Eps),
                    Pat(Eps, Plus(Lit("b")), Eps),
                    Pat(Eps, Lit("a"), Eps)>>

TextOf(q) == JoinAll([k \in 1..Len(q) |-> SampleChars[q[k]]])
SampleStrings == {TextOf(q) : q \in UNION {[1..n -> 1..Len(SampleChars)] : n \in 0..MaxTextLen}}
PatternLists ==
    {[k \in 1..Len(q) |-> SamplePatterns[q[k]]] :
        q \in UNION {[1..n -> 1..Len(SamplePatterns)] : n \in 0..MaxPatterns}}

InitApplyPatterns ==
    /\ args \in [text : SampleStrings, patterns : PatternLists]
    /\ ret = NotCalled
    /\ NoSessions

ApplyPatterns ==
    /\ ~ret.called
    /\ ret' = Returned(_apply_patterns(args.text, args.patterns))
    /\ UNCHANGED <<args, uploads, outputs, issued, response>>

NextApplyPatterns == ApplyPatterns

SpecApplyPatterns == InitApplyPatterns /\ [][NextApplyPatterns]_vars

\* The trimmed capture of the k-th pattern's match in the text
C9_Capture(k) == Strip(Group1(Search(args.patterns[k], args.text), args.text))

\* The patterns that match somewhere in the text, and those among them whose
\* trimmed capture is not empty
C9_Matching == {k \in 1..Len(args.patterns) : Search(args.patterns[k], args.text).found}
C9_Yielding == {k \in C9_Matching : C9_Capture(k) # ""}

\* C9 as claimed: _apply_patterns returns the trimmed capture of the first
\* pattern in list order whose match yields a non-empty trimmed capture, and
\* no match (or nothing usable) only if no pattern yields one; an empty
\* capture does not stop later patterns.
C9_FirstNonEmptyCapture ==
    ret.called =>
        IF C9_Yielding = {} THEN ~Truthy(ret.v)
        ELSE ret.v = Some(C9_Capture(Min(C9_Yielding)))

\* C9 as amended: _apply_patterns returns the trimmed capture of the first
\* pattern in list order that matches anywhere in the text, empty or not,
\* and None only if no pattern matches.
C9_FirstMatchingPattern ==
    ret.called =>
        IF C9_Matching = {} THEN ret.v = None
        ELSE ret.v = Some(C9_Capture(Min(C9_Matching)))

\* List order beats text position: (b+) is first in the list, "a" is first
\* in the text
C9_Witness ==
    /\ ret.called
    /\ args.text = "aB"
    /\ args.patterns = <<SamplePatterns[2], SamplePatterns[3]>>
    /\ ret.v = Some("B")

\* An empty capture of the first pattern ends the search
C9_EmptyCaptureReturned ==
    /\ ret.called
    /\ args.text = "aB"
    /\ args.patterns = <<SamplePatterns[1], SamplePatterns[2]>>
    /\ ret.v = Some("")

-----------------------------------------------------------------------------
(* _extract_currency on drawn texts *)

MaxTokens == 2

SampleTokens == <<"USD", "eur", "Rs.", "rupees", "INR", "₹", "$", "€", "¥", "£",
                  "usdx", "Rs5", "total">>

TokenText(q) ==
    JoinAll([k \in 1..Len(q) |->
                IF k < Len(q) THEN SampleTokens[q[k]] \o " " ELSE SampleTokens[q[k]]])
TokenTexts == {TokenText(q) : q \in UNION {[1..n -> 1..Len(SampleTokens)] : n \in 0..MaxTokens}}

InitCurrency ==
    /\ args \in [text : TokenTexts]
    /\ ret = NotCalled
    /\ NoSessions

ExtractCurrency ==
    /\ ~ret.called
    /\ ret' = Returned(_extract_currency(args.text))
    /\ UNCHANGED <<args, uploads, outputs, issued, response>>

NextCurrency == ExtractCurrency

SpecCurrency == InitCurrency /\ [][NextCurrency]_vars

C10_Char(s, i) == SubSeq(s, i, i)

\* w stands in s at position i as a whole word, letter case aside
C10_WordAt(s, w, i) ==
    /\ i + Len(w) - 1 <= Len(s)
    /\ LowerStr(SubSeq(s, i, i + Len(w) - 1)) = w
    /\ (i = 1 \/ C10_Char(s, i - 1) \notin WordChars)
    /\ (i + Len(w) > Len(s) \/ C10_Char(s, i + Len(w)) \notin WordChars)

C10_HasWord(s, w) == \E i \in 1..Len(s) : C10_WordAt(s, w, i)

C10_Codes == {"usd", "eur", "gbp", "cad", "aud", "inr", "sgd",
              "aed", "jpy", "cny", "hkd", "myr", "thb"}
C10_CodePlaces(s) == {i \in 1..Len(s) : \E c \in C10_Codes : C10_WordAt(s, c, i)}
C10_SymbolPlaces(s) == {i \in 1..Len(s) : C10_Char(s, i) \in {"$", "€", "£", "¥"}}

C10_SymbolCode(c) ==
    CASE c = "$" -> "USD" [] c = "€" -> "EUR" [] c = "£" -> "GBP" [] c = "¥" -> "JPY"

C10_Expected(s) ==
    IF \E i \in 1..Len(s) : C10_Char(s, i) = "₹" THEN Some("INR")
    ELSE IF \E w \in {"rs", "rupee", "rupees", "inr"} : C10_HasWord(s, w) THEN Some("INR")
    ELSE IF C10_CodePlaces(s) # {}
         THEN Some(UpperStr(SubSeq(s, Min(C10_CodePlaces(s)), Min(C10_CodePlaces(s)) + 2)))
    ELSE IF C10_SymbolPlaces(s) # {}
         THEN Some(C10_SymbolCode(C10_Char(s, Min(C10_SymbolPlaces(s)))))
    ELSE None

\* C10: _extract_currency gives INR if the text holds the rupee sign; else
\* INR if it holds Rs, Rs., Rupee(s) or INR as a whole word in any letter
\* case; else the first listed currency code found as a whole word, in upper
\* case, whatever symbols stand before it; else the code of the first
\* currency symbol found; else nothing.
C10_DecisionOrder == ret.called => ret.v = C10_Expected(args.text)

\* A code and the rupee sign together: INR
C10_Witness == ret.called /\ args.text = "USD ₹" /\ ret.v = Some("INR")

-----------------------------------------------------------------------------
(* The session endpoints of app.py *)

MaxFiles == 2

Filenames == {"a.pdf", "b.pdf", "C.PDF", "d.txt"}
Contents == {PdfFile(FALSE, <<>>), C2_Document}

\* The files of one upload request, in the order sent
UploadFile == [filename : Filenames, content : Contents]
UploadRequests == UNION {[1..n -> UploadFile] : n \in 0..MaxFiles}

\* What pdf_processor.extract_invoice_data gives for each file content
Extraction == [c \in Contents |-> extract_invoice_data(c)]

EndsWith(s, suffix) ==
    Len(s) >= Len(suffix) /\ SubSeq(s, Len(s) - Len(suffix) + 1, Len(s)) = suffix

\* open(file_path, "wb"): a file of the same name is overwritten
Saved(files, file) == {f \in files : f.filename # file.filename} \cup {file}

\* lines 54-62: the loop over the files of the request
RECURSIVE Store(_, _, _)
Store(files, k, acc) ==
    IF k > Len(files) THEN acc
    ELSE IF ~EndsWith(LowerStr(files[k].filename), ".pdf") THEN Store(files, k + 1, acc)
    ELSE Store(files, k + 1,
               [files |-> Saved(acc.files, files[k]),
                uploaded_files |-> Append(acc.uploaded_files, files[k].filename)])

\* lines 50-68, stored being what the loop leaves
Uploaded(session_id, stored) ==
    /\ uploads' = [uploads EXCEPT ![session_id] = [exists |-> TRUE, files |-> stored.files]]
    /\ issued' = issued \cup {session_id}
    /\ response' = [op |-> "upload_files", status |-> 200, session_id |-> session_id,
                    uploaded_files |-> stored.uploaded_files,
                    count |-> Len(stored.uploaded_files)]

\* POST /api/upload.  uuid4 gives an id that was never handed out.
upload_files(files) ==
    /\ IF files = <<>>
       THEN /\ response' = [op |-> "upload_files", status |-> 400]
            /\ UNCHANGED <<uploads, issued>>
       ELSE \E session_id \in SessionIds \ issued :
                Uploaded(session_id, Store(files, 1, [files |-> {}, uploaded_files |-> <<>>]))
    /\ UNCHANGED <<args, ret, outputs>>

\* session_dir.glob("*.pdf"): the pattern is matched case-sensitively, as on
\* a POSIX file system
Glob(files) == {f \in files : EndsWith(f.filename, ".pdf")}

\* The orders in which the directory may list the files
Orders(files) ==
    {q \in [1..Cardinality(files) -> files] : \A a, b \in DOMAIN q : q[a] = q[b] => a = b}

\* lines 92-104
ErrorRecord(filename) ==
    [filename |-> filename,
     error |-> "Failed to extract text",
     vendor_name |-> "ERROR",
     invoice_number |-> "ERROR",
     date |-> "N/A",
     total_amount |-> 0,
     currency |-> "N/A",
     category |-> "Others",
     invoice_type |-> "Not an invoice",
     status |-> "Error",
     is_incomplete |-> TRUE]

\* lines 87-104, extracted being what extract_invoice_data gave or raised
ResultOf(extracted, filename) ==
    IF extracted.raised THEN ErrorRecord(filename)
    ELSE extracted.data @@ [filename |-> filename]

Results(pdf_files) ==
    [k \in 1..Len(pdf_files) |->
        ResultOf(Extraction[pdf_files[k].content], pdf_files[k].filename)]

RECURSIVE SumAmounts(_, _)
SumAmounts(rows, k) ==
    IF k > Len(rows) THEN 0 ELSE rows[k].total_amount + SumAmounts(rows, k + 1)

IsValid(r) == r.invoice_type = "Invoice"
IsComplete(r) == IsValid(r) /\ ~r.is_incomplete
IsPartial(r) == IsValid(r) /\ r.is_incomplete
IsNonInvoice(r) == r.invoice_type = "Not an invoice"

\* lines 107-112 and 163-170: the counts of the response (the top vendor,
\* the biggest invoice, the currency breakdown and the summary text are
\* derived from the same list and are left out)
Statistics(results) ==
    [total_files |-> Len(results),
     valid_invoices |-> Len(SelectSeq(results, IsValid)),
     complete_invoices |-> Len(SelectSeq(results, IsComplete)),
     incomplete_invoices |-> Len(SelectSeq(results, IsPartial)),
     non_invoices |-> Len(SelectSeq(results, IsNonInvoice)),
     total_spend |-> SumAmounts(SelectSeq(results, IsValid), 1)]

\* OutputGenerator.generate_csv: the header is the first row's keys, and
\* csv.DictWriter raises ValueError for a row with a key that is not in the
\* header; the file is created before the rows are written.
generate_csv(data, dir) ==
    [raised |-> data # <<>> /\ \E k \in 1..Len(data) : ~(DOMAIN data[k] \subseteq DOMAIN data[1]),
     files |-> dir \cup {"invoices.csv"}]

generate_excel(data, dir) == dir \cup {"invoices_dashboard.xlsx"}
generate_chart(data, dir) == dir \cup {"monthly_spending.png"}

\* An exception that leaves the handler: the framework answers 500
ServerError(op, session_id) == [op |-> op, status |-> 500, session_id |-> session_id]

\* lines 143-182, csv being what generate_csv did
Answered(session_id, results, csv) ==
    IF csv.raised
    THEN /\ outputs' = [outputs EXCEPT ![session_id] = [exists |-> TRUE, files |-> csv.files]]
         /\ response' = ServerError("process_invoices", session_id)
    ELSE /\ outputs' = [outputs EXCEPT ![session_id] =
                           [exists |-> TRUE,
                            files |-> generate_chart(SelectSeq(results, IsValid),
                                                     generate_excel(results, csv.files))]]
         /\ response' = [op |-> "process_invoices", status |-> 200,
                         session_id |-> session_id, invoices |-> results,
                         statistics |-> Statistics(results)]

\* lines 84-145: output_session_dir.mkdir(exist_ok=True) keeps what the
\* directory holds
Processed(session_id, results) ==
    Answered(session_id, results, generate_csv(results, outputs[session_id].files))

\* POST /api/process/{session_id}
process_invoices(session_id) ==
    /\ IF ~uploads[session_id].exists
       THEN /\ response' = [op |-> "process_invoices", status |-> 404, session_id |-> session_id]
            /\ UNCHANGED outputs
       ELSE IF Glob(uploads[session_id].files) = {}
       THEN /\ response' = [op |-> "process_invoices", status |-> 400, session_id |-> session_id]
            /\ UNCHANGED outputs
       ELSE \E pdf_files \in Orders(Glob(uploads[session_id].files)) :
                Processed(session_id, Results(pdf_files))
    /\ UNCHANGED <<args, ret, uploads, issued>>

\* The edited rows a client may send back
EditedRow == [vendor_name |-> "ABC Traders", total_amount |-> 500000, invoice_type |-> "Invoice"]
UpdateInputs == {<<>>, <<EditedRow>>, <<EditedRow, EditedRow @@ [note |-> "paid"]>>}

\* lines 194-200, csv being what generate_csv did
Updated(session_id, updated_data, csv) ==
    IF csv.raised
    THEN /\ outputs' = [outputs EXCEPT ![session_id].files = csv.files]
         /\ response' = ServerError("update_data", session_id)
    ELSE /\ outputs' = [outputs EXCEPT ![session_id].files =
                           generate_chart(SelectSeq(updated_data, IsValid),
                                          generate_excel(updated_data, csv.files))]
         /\ response' = [op |-> "update_data", status |-> 200, session_id |-> session_id]

\* POST /api/update-data/{session_id}
update_data(session_id, updated_data) ==
    /\ IF ~outputs[session_id].exists
       THEN /\ response' = [op |-> "update_data", status |-> 404, session_id |-> session_id]
            /\ UNCHANGED outputs
       ELSE Updated(session_id, updated_data,
                    generate_csv(updated_data, outputs[session_id].files))
    /\ UNCHANGED <<args, ret, uploads, issued>>

FileTypes == {"csv", "excel", "chart", "pdf"}
file_map ==
    [t \in {"csv", "excel", "chart"} |->
        CASE t = "csv" -> "invoices.csv"
          [] t = "excel" -> "invoices_dashboard.xlsx"
          [] t = "chart" -> "monthly_spending.png"]

\* GET /api/download/{session_id}/{file_type}
download_file(session_id, file_type) ==
    /\ response' =
         IF ~outputs[session_id].exists
         THEN [op |-> "download_file", status |-> 404, session_id |-> session_id,
               detail |-> "Session not found"]
         ELSE IF file_type \notin DOMAIN file_map
         THEN [op |-> "download_file", status |-> 400, session_id |-> session_id,
               detail |-> "Invalid file type"]
         ELSE IF file_map[file_type] \notin outputs[session_id].files
         THEN [op |-> "download_file", status |-> 404, session_id |-> session_id,
               detail |-> "File not found"]
         ELSE [op |-> "download_file", status |-> 200, session_id |-> session_id,
               detail |-> file_map[file_type]]
    /\ UNCHANGED <<args, ret, uploads, outputs, issued>>

\* delete_session, were the output directory left in place
DeleteUploadsOnly(session_id) ==
    /\ uploads' = [uploads EXCEPT ![session_id] = NoDir]
    /\ response' = [op |-> "delete_session", status |-> 200, session_id |-> session_id]
    /\ UNCHANGED <<args, ret, issued, outputs>>

\* DELETE /api/session/{session_id}
delete_session(session_id) ==
    /\ uploads' = [uploads EXCEPT ![session_id] = NoDir]
    /\ outputs' = [outputs EXCEPT ![session_id] = NoDir]
    /\ response' = [op |-> "delete_session", status |-> 200, session_id |-> session_id]
    /\ UNCHANGED <<args, ret, issued>>

Init ==
    /\ args = <<>>
    /\ ret = NotCalled
    /\ NoSessions

Next ==
    \/ \E files \in UploadRequests : upload_files(files)
    \/ \E session_id \in SessionIds : process_invoices(session_id)
    \/ \E session_id \in SessionIds, updated_data \in UpdateInputs :
           update_data(session_id, updated_data)
    \/ \E session_id \in SessionIds, file_type \in FileTypes :
           download_file(session_id, file_type)
    \/ \E session_id \in SessionIds : delete_session(session_id)

Spec == Init /\ [][Next]_vars

\* The last request was process_invoices on a session that holds PDF files
C1_BatchProcessed ==
    /\ response.op = "process_invoices"
    /\ uploads[response.session_id].exists
    /\ Glob(uploads[response.session_id].files) # {}

\* C1: for a batch of N PDF files in a session, process_invoices answers
\* with an invoice list of exactly N entries and never ends with an
\* exception, whatever mixture of readable and unreadable documents the
\* batch holds and in whatever order they are processed.
C1_BatchAlwaysCompletes ==
    C1_BatchProcessed =>
        /\ response.status = 200
        /\ Len(response.invoices) = Cardinality(Glob(uploads[response.session_id].files))

\* A batch of one unreadable and one readable document: the request ends
\* with the CSV writer's exception, leaving only the CSV file behind
C1_MixedBatchFails ==
    /\ C1_BatchProcessed
    /\ Glob(uploads[response.session_id].files)
           = {[filename |-> "a.pdf", content |-> PdfFile(FALSE, <<>>)],
              [filename |-> "b.pdf", content |-> C2_Document]}
    /\ response.status = 500
    /\ outputs[response.session_id].files = {"invoices.csv"}

\* The entries of the answer that stand for files whose text extraction fails
C7_Substituted ==
    {k \in 1..Len(response.invoices) :
        \E f \in uploads[response.session_id].files :
            f.filename = response.invoices[k].filename /\ ~f.content.readable}

C7_RecordFields ==
    {"vendor_name", "invoice_number", "date", "total_amount", "currency",
     "currency_symbol", "currency_name", "currency_region", "category",
     "invoice_type", "status", "is_incomplete"}

\* C7: the record substituted for a document whose text extraction fails has
\* vendor_name, invoice_number, date and currency "N/A", total_amount 0.0,
\* invoice_type "Not an invoice", status "Error" and is_incomplete true, and
\* carries the fields of a normal record, currency_symbol, currency_name and
\* currency_region included.
C7_ErrorRecordIsSentinel ==
    (C1_BatchProcessed /\ response.status = 200) =>
        \A k \in C7_Substituted :
            /\ C7_RecordFields \subseteq DOMAIN response.invoices[k]
            /\ response.invoices[k].vendor_name = "N/A"
            /\ response.invoices[k].invoice_number = "N/A"
            /\ response.invoices[k].date = "N/A"
            /\ response.invoices[k].currency = "N/A"
            /\ response.invoices[k].total_amount = 0
            /\ response.invoices[k].invoice_type = "Not an invoice"
            /\ response.invoices[k].status = "Error"
            /\ response.invoices[k].is_incomplete = TRUE

\* The record substituted in a batch of unreadable documents: "ERROR" for
\* vendor and number, an error field, and no currency metadata
C7_ErrorRecordObserved ==
    /\ C1_BatchProcessed
    /\ response.status = 200
    /\ \E k \in C7_Substituted :
           /\ response.invoices[k].vendor_name = "ERROR"
           /\ response.invoices[k].invoice_number = "ERROR"
           /\ "error" \in DOMAIN response.invoices[k]
           /\ DOMAIN response.invoices[k]
                  \cap {"currency_symbol", "currency_name", "currency_region"} = {}

-----------------------------------------------------------------------------
(* extract_invoice_data on documents of amounts and currencies *)

FieldLines == <<"Total: ,", "paid 4,128.82", "12 USD", "Balance -12.50", "$ 7", "404">>

FieldText(q) ==
    JoinAll([k \in 1..Len(q) |->
                IF k < Len(q) THEN FieldLines[q[k]] \o "\n" ELSE FieldLines[q[k]]])

FieldSeqs ==
    UNION {{q \in [1..n -> 1..Len(FieldLines)] : \A a, b \in 1..n : q[a] = q[b] => a = b}
           : n \in 0..MaxLines}

FieldDocuments == {PdfFile(TRUE, <<FieldText(q)>>) : q \in FieldSeqs} \cup {PdfFile(FALSE, <<>>)}

InitFields ==
    /\ args \in {[pdf |-> d] : d \in FieldDocuments}
    /\ ret = NotCalled
    /\ NoSessions

SpecFields == InitFields /\ [][NextExtract]_vars

C11_Holds(resolved, data) ==
    /\ ~Truthy(resolved)
           => data.currency = (IF data.vendor_name # "N/A" THEN "INR" ELSE "N/A")
    /\ Truthy(resolved) => data.currency = resolved.v
    /\ data.currency = "N/A" => data.vendor_name = "N/A"

\* C11: when the currency resolver returns undetermined the record's
\* currency is "INR" if a vendor was found and "N/A" otherwise; so every
\* record whose currency is "N/A" has vendor_name "N/A", and a resolved
\* currency is never replaced by the default.
C11_DefaultsToINR == Produced => C11_Holds(_extract_currency(C8_Text), ret.v.data)

\* No currency in the text, a vendor at the start of the line: INR
C11_Witness ==
    /\ Produced
    /\ args.pdf = PdfFile(TRUE, <<FieldText(<<2>>)>>)
    /\ ~Truthy(_extract_currency(C8_Text))
    /\ ret.v.data.vendor_name # "N/A"
    /\ ret.v.data.currency = "INR"

C12_Listed(data) ==
    /\ data.currency \in DOMAIN CURRENCY_REGIONS
    /\ Cardinality(DOMAIN CURRENCY_REGIONS) = 13
    /\ data.currency_symbol = CURRENCY_REGIONS[data.currency].symbol
    /\ data.currency_name = CURRENCY_REGIONS[data.currency].name
    /\ data.currency_region = CURRENCY_REGIONS[data.currency].region

\* C12 as claimed: currency is one of the 13 codes of the table with that
\* code's symbol, name and region, or currency is "N/A" and currency_symbol,
\* currency_name and currency_region are all "Unknown".
C12_MetadataOrUnknown ==
    Produced =>
        \/ C12_Listed(ret.v.data)
        \/ /\ ret.v.data.currency = "N/A"
           /\ ret.v.data.currency_symbol = "Unknown"
           /\ ret.v.data.currency_name = "Unknown"
           /\ ret.v.data.currency_region = "Unknown"

\* C12 as amended: currency is one of the 13 codes of the table with that
\* code's symbol, name and region, or currency is "N/A" with currency_symbol
\* "N/A", currency_name "N/A" and currency_region "Unknown".
C12_MetadataOrNA ==
    Produced =>
        \/ C12_Listed(ret.v.data)
        \/ /\ ret.v.data.currency = "N/A"
           /\ ret.v.data.currency_symbol = "N/A"
           /\ ret.v.data.currency_name = "N/A"
           /\ ret.v.data.currency_region = "Unknown"

\* A record without currency: its symbol and name repeat "N/A"
C12_Witness ==
    /\ Produced
    /\ args.pdf = PdfFile(TRUE, <<FieldText(<<6>>)>>)
    /\ ret.v.data.currency = "N/A"
    /\ ret.v.data.currency_symbol = "N/A"
    /\ ret.v.data.currency_region = "Unknown"

\* A record with a listed currency and its table entry
C12_ListedObserved ==
    /\ Produced
    /\ ret.v.data.currency = "USD"
    /\ ret.v.data.currency_symbol = "$"
    /\ ret.v.data.currency_name = "US Dollar"
    /\ ret.v.data.currency_region = "United States"

\* C13: in every record extract_invoice_data produces, whichever path set
\* the amount, total_amount is greater than or equal to 0.
C13_AmountNotNegative == Produced => ret.v.data.total_amount >= 0

\* A balance written with a minus sign: the sign is read as a separator
C13_Witness ==
    /\ Produced
    /\ args.pdf = PdfFile(TRUE, <<FieldText(<<4>>)>>)
    /\ ret.v.data.total_amount = 1250

\* The amount-cue patterns that match somewhere in the text
C17_Cues(text) == {k \in 1..Len(AMOUNT_PATTERNS) : Search(AMOUNT_PATTERNS[k], text).found}

\* The parse of what a cue captured; an empty capture is no number
C17_Parsed(capture) == IF capture = "" THEN 0 ELSE _parse_amount(capture)

C17_CueAmount(text, k) ==
    C17_Parsed(Strip(Group1(Search(AMOUNT_PATTERNS[k], text), text)))

C17_Holds(text, cues, fallback, data) ==
    IF cues # {} THEN data.total_amount = C17_CueAmount(text, Min(cues))
    ELSE data.total_amount = (IF fallback.some THEN fallback.v ELSE 0)

\* C17: the fallback largest-number heuristic is used if and only if none of
\* the four amount-cue patterns matched: when a cue matched, total_amount is
\* the parse of the first matching cue's capture, even when that is 0.0 and
\* the text holds positive numbers; when none matched, total_amount is the
\* fallback's maximum, or 0.0 if there is none.
C17_FallbackIffNoCue ==
    Produced => C17_Holds(C8_Text, C17_Cues(C8_Text), _fallback_amount(C8_Text), ret.v.data)

\* A cue whose capture parses to 0.0 beside a positive number
C17_Witness ==
    /\ Produced
    /\ args.pdf = PdfFile(TRUE, <<FieldText(<<1, 2>>)>>)
    /\ C17_Cues(C8_Text) # {}
    /\ _fallback_amount(C8_Text) = [some |-> TRUE, v |-> 412882]
    /\ ret.v.data.total_amount = 0

-----------------------------------------------------------------------------
(* _normalize_date on drawn date strings, alone and behind a date cue *)

MaxFields == 3

DateParts == <<"02", "4", "12", "13", "29", "31", "2023", "2024", "24">>
DateSeps == <<"/", "-">>

DateText(q, sep) ==
    JoinAll([k \in 1..Len(q) |->
                IF k < Len(q) THEN DateParts[q[k]] \o sep ELSE DateParts[q[k]]])

WrittenDates == {"15 Aug 2024", "15 August 2024", "15 Sept 2024", "31 Feb 2024",
                 "5 aug 2024", "15  Aug 2024", "15 Aug 24", "04/05-2023", "2023-04/05"}

DateStrings ==
    WrittenDates \cup
    {DateText(q, DateSeps[j]) :
        q \in UNION {[1..n -> 1..Len(DateParts)] : n \in 2..MaxFields},
        j \in 1..Len(DateSeps)}

InitNormalizeDate ==
    /\ args \in [date_str : DateStrings]
    /\ ret = NotCalled
    /\ NoSessions

\* _normalize_date(date_str), and lines 227-229 on a text whose date cue is
\* followed by date_str
NormalizeDate ==
    /\ ~ret.called
    /\ ret' = Returned([normalized |-> _normalize_date(args.date_str),
                        date_raw |-> _apply_patterns("Date: " \o args.date_str,
                                                     DATE_PATTERNS),
                        date |-> ExtractDate("Date: " \o args.date_str)])
    /\ UNCHANGED <<args, uploads, outputs, issued, response>>

NextNormalizeDate == NormalizeDate

SpecNormalizeDate == InitNormalizeDate /\ [][NextNormalizeDate]_vars

C14_Places(s, sep) == {i \in 1..Len(s) : SubSeq(s, i, i) = sep}

\* The fields of s between the separators sep
RECURSIVE C14_Split(_, _)
C14_SplitAt(s, sep, i) ==
    <<SubSeq(s, 1, i - 1)>> \o C14_Split(SubSeq(s, i + 1, Len(s)), sep)
C14_Split(s, sep) ==
    IF C14_Places(s, sep) = {} THEN <<s>>
    ELSE C14_SplitAt(s, sep, Min(C14_Places(s, sep)))

C14_IsNumber(f, lo, hi) ==
    /\ Len(f) \in lo..hi
    /\ \A i \in 1..Len(f) : SubSeq(f, i, i) \in Digit

C14_MonthNames == <<"january", "february", "march", "april", "may", "june", "july",
                    "august", "september", "october", "november", "december">>
C14_IsMonthName(f) ==
    \E m \in 1..12 : LowerStr(f) \in {C14_MonthNames[m], SubSeq(C14_MonthNames[m], 1, 3)}
C14_MonthNumber(f) ==
    CHOOSE m \in 1..12 : LowerStr(f) \in {C14_MonthNames[m], SubSeq(C14_MonthNames[m], 1, 3)}

C14_Days(y, m) ==
    IF m = 2 THEN (IF (y % 4 = 0 /\ y % 100 # 0) \/ y % 400 = 0 THEN 29 ELSE 28)
    ELSE IF m \in {4, 6, 9, 11} THEN 30 ELSE 31

C14_Two(n) == IF n < 10 THEN "0" \o NatToStr(n) ELSE NatToStr(n)

\* The calendar date of year y, month m, day d as YYYY-MM-DD, if there is one
C14_Calendar(y, m, d) ==
    IF y >= 1 /\ m \in 1..12 /\ d >= 1 /\ d <= C14_Days(y, m)
    THEN Some(ZeroPad(NatToStr(y), 4) \o "-" \o C14_Two(m) \o "-" \o C14_Two(d))
    ELSE None

\* The reading of the three fields as year fy, month fm, day fd
C14_Reading(fy, fm, fd) ==
    IF C14_IsNumber(fy, 4, 4) /\ C14_IsNumber(fm, 1, 2) /\ C14_IsNumber(fd, 1, 2)
    THEN C14_Calendar(StrToNat(fy), StrToNat(fm), StrToNat(fd))
    ELSE None

C14_Written(fd, fm, fy) ==
    IF C14_IsNumber(fy, 4, 4) /\ C14_IsMonthName(fm) /\ C14_IsNumber(fd, 1, 2)
    THEN C14_Calendar(StrToNat(fy), C14_MonthNumber(fm), StrToNat(fd))
    ELSE None

\* The first of the readings that gives a date
RECURSIVE C14_First(_, _)
C14_First(readings, k) ==
    IF k > Len(readings) THEN None
    ELSE IF readings[k].some THEN readings[k]
    ELSE C14_First(readings, k + 1)

C14_Slash(f) ==
    IF Len(f) # 3 THEN None
    ELSE C14_First(<<C14_Reading(f[3], f[1], f[2]), C14_Reading(f[3], f[2], f[1])>>, 1)

C14_Dash(f) ==
    IF Len(f) # 3 THEN None
    ELSE C14_First(<<C14_Reading(f[1], f[2], f[3]), C14_Reading(f[3], f[1], f[2]),
                     C14_Reading(f[3], f[2], f[1])>>, 1)

C14_Space(f) == IF Len(f) # 3 THEN None ELSE C14_Written(f[1], f[2], f[3])

\* A run of spaces separates as one space does
C14_NonEmpty(f) == f # ""

C14_Parse(s) ==
    C14_First(<<C14_Slash(C14_Split(s, "/")), C14_Dash(C14_Split(s, "-")),
                C14_Space(SelectSeq(C14_Split(s, " "), C14_NonEmpty))>>, 1)

C14_OrUnchanged(parsed, s) == IF parsed.some THEN parsed.v ELSE s
C14_Expected(s) == C14_OrUnchanged(C14_Parse(s), s)

C14_RecordDate(date_raw) ==
    IF Truthy(date_raw) THEN C14_Expected(date_raw.v) ELSE "N/A"

\* C14: _normalize_date gives the first reading that is a calendar date, in
\* the order month/day/year, day/month/year, year-month-day, month-day-year,
\* day-month-year, day and month name and year, written as YYYY-MM-DD; so
\* a/b/YYYY with b a day of month a is read month first, one with a over 12
\* and a a day of month b is read day first; a string with no such reading
\* is returned unchanged, and what the date cue captured, so treated, is the
\* record's date.
C14_FirstFormatWins ==
    ret.called =>
        /\ ret.v.normalized = C14_Expected(args.date_str)
        /\ ret.v.date = C14_RecordDate(ret.v.date_raw)

\* Both readings exist and the month-first one is taken
C14_Witness ==
    /\ ret.called /\ args.date_str = "4/12/2023"
    /\ ret.v.normalized = "2023-04-12" /\ ret.v.date = "2023-04-12"

\* Only the day-first reading exists
C14_DayFirstObserved ==
    ret.called /\ args.date_str = "13/4/2023" /\ ret.v.normalized = "2023-04-13"

\* A two-digit year: the captured string is the record's date
C14_UnchangedObserved ==
    /\ ret.called /\ args.date_str = "4/12/24"
    /\ ret.v.normalized = "4/12/24" /\ ret.v.date = "4/12/24"

-----------------------------------------------------------------------------
(* _fallback_amount on drawn texts *)

MaxPieces == 3

NumberPieces == <<"4,128.82", "200", " ", "0", "0.00", "x1,23", "1234", ".5", "₹7", "-3">>

PieceText(q) == JoinAll([k \in 1..Len(q) |-> NumberPieces[q[k]]])
PieceTexts == {PieceText(q) : q \in UNION {[1..n -> 1..Len(NumberPieces)] : n \in 0..MaxPieces}}

InitFallbackAmount ==
    /\ args \in [text : PieceTexts]
    /\ ret = NotCalled
    /\ NoSessions

FallbackAmount ==
    /\ ~ret.called
    /\ ret' = Returned(_fallback_amount(args.text))
    /\ UNCHANGED <<args, uploads, outputs, issued, response>>

NextFallbackAmount == FallbackAmount

SpecFallbackAmount == InitFallbackAmount /\ [][NextFallbackAmount]_vars

C15_IsDigit(s, i) == i <= Len(s) /\ SubSeq(s, i, i) \in Digit
C15_Is(s, i, c) == i <= Len(s) /\ SubSeq(s, i, i) = c

\* The number of digits of s from position i on, at most most
RECURSIVE C15_Run(_, _, _)
C15_Run(s, i, most) ==
    IF most = 0 \/ ~C15_IsDigit(s, i) THEN 0 ELSE 1 + C15_Run(s, i + 1, most - 1)

\* The position after the comma groups of 2-3 digits that start at j
RECURSIVE C15_GroupsEnd(_, _)
C15_AfterGroup(s, j, run) == IF run >= 2 THEN C15_GroupsEnd(s, j + 1 + run) ELSE j
C15_GroupsEnd(s, j) ==
    IF C15_Is(s, j, ",") THEN C15_AfterGroup(s, j, C15_Run(s, j + 1, 3)) ELSE j

\* The position after the decimals (a point and 1-2 digits) that start at j
C15_AfterPoint(j, run) == IF run >= 1 THEN j + 1 + run ELSE j
C15_DecimalsEnd(s, j) ==
    IF C15_Is(s, j, ".") THEN C15_AfterPoint(j, C15_Run(s, j + 1, 2)) ELSE j

C15_DigitValue(c) == CHOOSE d \in 0..9 : NatToStr(d) = c

\* The number written by the digits of w, its commas left out
RECURSIVE C15_Whole(_)
C15_Whole(w) ==
    IF w = "" THEN 0
    ELSE IF SubSeq(w, Len(w), Len(w)) = "," THEN C15_Whole(SubSeq(w, 1, Len(w) - 1))
    ELSE 10 * C15_Whole(SubSeq(w, 1, Len(w) - 1))
            + C15_DigitValue(SubSeq(w, Len(w), Len(w)))

\* The decimals d (none, or a point and 1-2 digits) in hundredths
C15_Hundredths(d) ==
    IF d = "" THEN 0
    ELSE IF Len(d) = 2 THEN 10 * C15_DigitValue(SubSeq(d, 2, 2))
    ELSE 10 * C15_DigitValue(SubSeq(d, 2, 2)) + C15_DigitValue(SubSeq(d, 3, 3))

\* The value, in hundredths, of the grouped number s[i..e-1] whose whole
\* part ends before position j
C15_Value(s, i, j, e) ==
    100 * C15_Whole(SubSeq(s, i, j - 1)) + C15_Hundredths(SubSeq(s, j, e - 1))

\* The values of the grouped numbers of s from position i on, read from left
\* to right, each as long as it can be, none overlapping another
RECURSIVE C15_Scan(_, _)
C15_Taken(s, i, j, e) == {C15_Value(s, i, j, e)} \cup C15_Scan(s, e)
C15_Whence(s, i, j) == C15_Taken(s, i, j, C15_DecimalsEnd(s, j))
C15_Scan(s, i) ==
    IF i > Len(s) THEN {}
    ELSE IF ~C15_IsDigit(s, i) THEN C15_Scan(s, i + 1)
    ELSE C15_Whence(s, i, C15_GroupsEnd(s, i + C15_Run(s, i, 3)))

C15_Largest(values) ==
    IF values = {} THEN [some |-> FALSE, v |-> 0]
    ELSE [some |-> TRUE, v |-> CHOOSE v \in values : \A w \in values : w <= v]

C15_Expected(s) == C15_Largest({v \in C15_Scan(s, 1) : v > 0})

\* C15: _fallback_amount gives the largest positive value among the grouped
\* numbers of the text (1-3 digits, comma groups of 2-3 digits, 1-2
\* decimals; commas left out of the value), and nothing when the text holds
\* no positive one.
C15_LargestPositive == ret.called => ret.v = C15_Expected(args.text)

\* 4,128.82 and 200 in one text: 4128.82
C15_Witness ==
    ret.called /\ args.text = "4,128.82 200" /\ ret.v = [some |-> TRUE, v |-> 412882]

\* Only zeros in the text: nothing
C15_NoneObserved == ret.called /\ args.text = "0 0.00" /\ ~ret.v.some

-----------------------------------------------------------------------------
(* _detect_category on drawn texts and vendors *)

MaxWords == 2

CategoryWords == <<"Pizza", "amazon", "bill", "uber", "UBER  EATS", "ubereats", "hello",
                   "Vegas", "flight", "Retailer", "OLA", "eats">>
CategoryVendors == {"N/A", "Zomato", "Ola Cabs", "Eats Co", "ABC Traders"}

WordText(q) ==
    JoinAll([k \in 1..Len(q) |->
                IF k < Len(q) THEN CategoryWords[q[k]] \o " " ELSE CategoryWords[q[k]]])
WordTexts == {WordText(q) : q \in UNION {[1..n -> 1..Len(CategoryWords)] : n \in 0..MaxWords}}

InitCategory ==
    /\ args \in [text : WordTexts, vendor : CategoryVendors]
    /\ ret = NotCalled
    /\ NoSessions

DetectCategory ==
    /\ ~ret.called
    /\ ret' = Returned(_detect_category(args.text, args.vendor))
    /\ UNCHANGED <<args, uploads, outputs, issued, response>>

NextCategory == DetectCategory

SpecCategory == InitCategory /\ [][NextCategory]_vars

\* w stands in t at position i
C16_At(t, w, i) == i + Len(w) - 1 <= Len(t) /\ SubSeq(t, i, i + Len(w) - 1) = w
C16_Holds(t, w) == \E i \in 1..Len(t) : C16_At(t, w, i)
C16_HoldsAny(t, ws) == \E w \in ws : C16_Holds(t, w)

\* "uber", any white space, "eats"
C16_UberEats(t) ==
    \E i \in 1..Len(t) : \E j \in (i + 4)..Len(t) :
        /\ C16_At(t, "uber", i) /\ C16_At(t, "eats", j)
        /\ \A k \in (i + 4)..(j - 1) : SubSeq(t, k, k) \in Space

C16_Food == {"swiggy", "zomato", "dominos", "pizza", "restaurant", "cafe", "food"}
C16_Shopping == {"amazon", "flipkart", "myntra", "ajio", "shopping", "retail"}
C16_Bills == {"electricity", "water", "gas", "internet", "broadband", "utility", "bill"}
C16_Travel == {"uber", "ola", "flight", "hotel", "booking", "airbnb", "travel"}

C16_Category(t) ==
    IF C16_HoldsAny(t, C16_Food) \/ C16_UberEats(t) THEN "Food"
    ELSE IF C16_HoldsAny(t, C16_Shopping) THEN "Shopping"
    ELSE IF C16_HoldsAny(t, C16_Bills) THEN "Bills"
    ELSE IF C16_HoldsAny(t, C16_Travel) THEN "Travel"
    ELSE "Others"

C16_Expected(s, vendor) == C16_Category(LowerStr(s \o " " \o vendor))

\* C16: _detect_category gives the first of Food, Shopping, Bills, Travel
\* with a keyword in the lower-cased text followed by a space and the
\* vendor, wherever in it the keywords stand, "Others" when there is none,
\* and never anything else.
C16_FirstCategoryWins ==
    ret.called =>
        /\ ret.v = C16_Expected(args.text, args.vendor)
        /\ ret.v \in {"Food", "Shopping", "Bills", "Travel", "Others"}

\* A Travel keyword stands before the Food keyword: Food
C16_Witness ==
    ret.called /\ args.text = "flight Pizza" /\ args.vendor = "N/A" /\ ret.v = "Food"

\* No keyword at all
C16_OthersObserved ==
    ret.called /\ args.text = "hello" /\ args.vendor = "ABC Traders" /\ ret.v = "Others"

-----------------------------------------------------------------------------
(* Uploads against records, and the life of a session, over the endpoints *)

\* process_invoices answers the session whose upload was the request before
C18_ProcessAfterUpload ==
    /\ response.op = "upload_files" /\ response.status = 200
    /\ response'.op = "process_invoices"
    /\ response'.session_id = response.session_id

\* C18: the records that process_invoices returns for a session are as many
\* as the count, and the uploaded_files, that upload_files reported for it:
\* one record for every file the upload listed, files with the extension
\* .PDF and files uploaded under one filename included.  (A request that ends
\* with the exception of C1 returns nothing and is left aside.)
C18_OneRecordPerUpload ==
    [][C18_ProcessAfterUpload =>
          /\ response.count = Len(response.uploaded_files)
          /\ response'.status = 200 => Len(response'.invoices) = response.count
          /\ response'.status = 400 => response.count = 0]_vars

\* A session whose upload listed C.PDF: process_invoices finds no PDF file
C18_UpperCaseIgnored ==
    /\ response.op = "process_invoices" /\ response.status = 400
    /\ uploads[response.session_id].exists
    /\ \E f \in uploads[response.session_id].files : f.filename = "C.PDF"

\* Two files uploaded as a.pdf: one file in the directory, one record
C18_DuplicateCollapsed ==
    /\ response.op = "process_invoices" /\ response.status = 200
    /\ Len(response.invoices) = 1
    /\ uploads[response.session_id].files
           = {[filename |-> "a.pdf", content |-> C2_Document]}

\* The session s was handed out by an upload and deleted afterwards: its
\* upload directory, made by the upload, is gone, and no upload gets its id
\* again
C19_Deleted(s) == s \in issued /\ ~uploads[s].exists

\* What one request does to the sessions:
\*   an output directory comes to exist only by process_invoices on a
\*   session whose upload directory exists;
\*   delete_session leaves neither directory;
\*   update_data and download_file answer 404 without an output directory,
\*   process_invoices answers 404 without an upload directory;
\*   a deleted session stays deleted, has no output directory, and
\*   process_invoices, update_data and download_file answer 404 for it.
C19_Request ==
    /\ \A s \in SessionIds :
           (outputs'[s].exists /\ ~outputs[s].exists) =>
               /\ response'.op = "process_invoices" /\ response'.session_id = s
               /\ uploads[s].exists
    /\ response'.op = "delete_session" =>
           /\ ~uploads'[response'.session_id].exists
           /\ ~outputs'[response'.session_id].exists
    /\ (response'.op \in {"update_data", "download_file"}
            /\ ~outputs[response'.session_id].exists) => response'.status = 404
    /\ (response'.op = "process_invoices"
            /\ ~uploads[response'.session_id].exists) => response'.status = 404
    /\ \A s \in SessionIds :
           C19_Deleted(s) =>
               /\ ~uploads'[s].exists /\ s \in issued'
               /\ ~outputs[s].exists /\ ~outputs'[s].exists
               /\ (response'.op \in {"process_invoices", "update_data", "download_file"}
                       /\ response'.session_id = s) => response'.status = 404

\* C19: over any sequence of requests, download_file and update_data answer
\* 404 for a session unless process_invoices was started for it and it was
\* not deleted since; process_invoices answers 404 for a session that was
\* never uploaded or was deleted; and after delete_session every later
\* process_invoices, update_data and download_file for the session answers
\* 404, so that no file of it is returned.
C19_SessionLifecycle == [][C19_Request]_vars

\* A download asked of a session after its deletion
C19_Witness ==
    /\ response.op = "download_file" /\ response.status = 404
    /\ C19_Deleted(response.session_id)

\* A download that returns a file: the session was processed and not deleted
C19_FileReturned ==
    /\ response.op = "download_file" /\ response.status = 200
    /\ uploads[response.session_id].exists /\ outputs[response.session_id].exists

====
